---------------------------- MODULE Spec2Model ----------------------------
(***************************************************************************)
(* picoreg: bit-banged SWD access to RP2040 registers (picoreg_gpio.py).   *)
(*                                                                         *)
(* The model covers the line buffer of GpioDrv, the field codec BitReg,    *)
(* the transaction engine SwdMsg and the connection manager SwdConnection  *)
(* with its retry wrapper conn_func_retry.  One step of the model is one   *)
(* line transfer (one SwdMsg.read / SwdMsg.write, or the wake-up/reset     *)
(* transfer), or one control decision of conn_func_retry.  The target is   *)
(* the environment: for every sampled bit it chooses the level of the data *)
(* line.                                                                   *)
(*                                                                         *)
(* Python integers are unbounded and the program handles 32-bit words with *)
(* the top bit set (0xA2000012, 0xD0000004), so a machine word is kept as  *)
(* a pair <<lo, hi>> of 16-bit limbs and the arithmetic is done on limbs.  *)
(***************************************************************************)
EXTENDS Integers, Sequences, FiniteSets, TLC

\* ------------------------------------------------------------------------
\* Program constants (picoreg_gpio.py lines 34-48)
\* ------------------------------------------------------------------------
NUM_TRIES == 3
SWD_DP == 0
SWD_AP == 1
SWD_WR == 0
SWD_RD == 1
SWD_ACK_OK == 1
SWD_ACK_WAIT == 2
SWD_ACK_ERROR == 4

\* None of Python: the absence of a value
None == "None"

\* ------------------------------------------------------------------------
\* Limb arithmetic for unsigned integers
\* ------------------------------------------------------------------------
\* 1 << n, for n <= 16
POW2 == <<1, 2, 4, 8, 16, 32, 64, 128, 256, 512, 1024, 2048, 4096, 8192,
          16384, 32768, 65536>>
Pow2(n) == POW2[n + 1]

LIMB == Pow2(16)

\* The word hi * 2^16 + lo
W(hi, lo) == <<lo, hi>>

\* A small non-negative integer as a word
U(n) == <<n % LIMB, n \div LIMB>>

\* data & (1 << n) # 0, for n < 32
TestBit(data, n) == (data[(n \div 16) + 1] \div Pow2(n % 16)) % 2 = 1

\* x >> k on a word, 0 < k < 16
Shr(x, k) == <<(x[1] \div Pow2(k)) + (x[2] % Pow2(k)) * Pow2(16 - k),
               x[2] \div Pow2(k)>>

\* a & b and a ^ b on n bits, bit by bit
RECURSIVE AndBits(_, _, _)
AndBits(a, b, n) ==
    IF n = 0 THEN 0
    ELSE (a % 2) * (b % 2) + 2 * AndBits(a \div 2, b \div 2, n - 1)

RECURSIVE XorBits(_, _, _)
XorBits(a, b, n) ==
    IF n = 0 THEN 0
    ELSE ((a + b) % 2) + 2 * XorBits(a \div 2, b \div 2, n - 1)

\* The same on the 4-bit digits, tabulated once
AND4 == [a \in 0..15 |-> [b \in 0..15 |-> AndBits(a, b, 4)]]
XOR4 == [a \in 0..15 |-> [b \in 0..15 |-> XorBits(a, b, 4)]]

\* a & b and a ^ b on limbs, digit by digit
And16(a, b) ==
    AND4[a % 16][b % 16]
    + 16 * AND4[(a \div 16) % 16][(b \div 16) % 16]
    + 256 * AND4[(a \div 256) % 16][(b \div 256) % 16]
    + 4096 * AND4[(a \div 4096) % 16][(b \div 4096) % 16]

Xor16(a, b) ==
    XOR4[a % 16][b % 16]
    + 16 * XOR4[(a \div 16) % 16][(b \div 16) % 16]
    + 256 * XOR4[(a \div 256) % 16][(b \div 256) % 16]
    + 4096 * XOR4[(a \div 4096) % 16][(b \div 4096) % 16]

\* x & y, x ^ y, x + y, x - y on words (x >= y for the difference; the sum
\* and the difference of parity32 never leave 32 bits)
AndW(x, y) == <<And16(x[1], y[1]), And16(x[2], y[2])>>
XorW(x, y) == <<Xor16(x[1], y[1]), Xor16(x[2], y[2])>>
AddW(x, y) == <<(x[1] + y[1]) % LIMB, (x[2] + y[2] + ((x[1] + y[1]) \div LIMB)) % LIMB>>
SubW(x, y) ==
    IF x[1] >= y[1] THEN <<x[1] - y[1], x[2] - y[2]>>
    ELSE <<x[1] + LIMB - y[1], x[2] - 1 - y[2]>>

\* The two low limbs of x * y, for limbs of y below 2^14 (0x0101 in
\* parity32): everything parity32 reads of its product lies below bit 32
MulLow(x, y) ==
    LET p0 == x[1] * y[1]
        p1 == x[1] * y[2] + x[2] * y[1] + (p0 \div LIMB)
    IN  <<p0 % LIMB, p1 % LIMB>>

\* Calculate parity of 32-bit integer
parity32(i0) ==
    LET i1 == SubW(i0, AndW(Shr(i0, 1), W(21845, 21845)))
        i2 == AddW(AndW(i1, W(13107, 13107)), AndW(Shr(i1, 2), W(13107, 13107)))
        i3 == MulLow(AndW(AddW(i2, Shr(i2, 4)), W(3855, 3855)), W(257, 257))
    IN  (i3[2] \div 256) % 2


\* ------------------------------------------------------------------------
\* Frame shapes: (name, width) in declaration order (lines 23-32)
\* ------------------------------------------------------------------------
swd_hdr == << <<"Start", 1>>, <<"APnDP", 1>>, <<"RnW", 1>>, <<"Addr", 2>>,
              <<"Parity", 1>>, <<"Stop", 1>>, <<"Park", 1>> >>
swd_ack == << <<"ack", 3>> >>
swd_val32p == << <<"value", 32>>, <<"parity", 1>> >>
swd_turn == << <<"turn", 1>> >>

\* ------------------------------------------------------------------------
\* GpioDrv: the transmit and receive buffers are sequences of "0", "1", "."
\* ------------------------------------------------------------------------

\* send_bits with the most significant of the nbits bits first
send_bits_msb(txdata, data, nbits, recv) ==
    txdata \o [n \in 1..nbits |->
                 IF recv THEN "." ELSE IF TestBit(data, nbits - n) THEN "1" ELSE "0"]

\* Add some bits to transmit buffer, dummy bits if a read cycle
send_bits(txdata, data, nbits, recv) ==
    txdata \o [n \in 1..nbits |->
                 IF recv THEN "." ELSE IF TestBit(data, n - 1) THEN "1" ELSE "0"]

\* Add some bytes to transmit buffer, dummy bits if a read cycle
RECURSIVE send_bytes(_, _, _)
send_bytes(txdata, data, recv) ==
    IF data = <<>> THEN txdata
    ELSE send_bytes(send_bits(txdata, U(Head(data)), 8, recv), Tail(data), recv)

\* recv_bit with the bits of each limb taken most significant first
recv_bit_msb(rxdata, n, nbits) ==
    IF n < nbits /\ rxdata[n + 1] = "1" THEN Pow2(15 - (n % 16)) ELSE 0

\* 1 << n if n < nbits and rxdata[n] == "1", else 0: what the loop of
\* recv_bits ORs into the limb of bit n
recv_bit(rxdata, n, nbits) ==
    IF n < nbits /\ rxdata[n + 1] = "1" THEN Pow2(n % 16) ELSE 0

\* val after the loop of recv_bits: the bits of a limb are distinct powers
\* of two, so OR-ing them is adding them
recv_limb(rxdata, base, nbits) ==
    recv_bit(rxdata, base, nbits) + recv_bit(rxdata, base + 1, nbits)
    + recv_bit(rxdata, base + 2, nbits) + recv_bit(rxdata, base + 3, nbits)
    + recv_bit(rxdata, base + 4, nbits) + recv_bit(rxdata, base + 5, nbits)
    + recv_bit(rxdata, base + 6, nbits) + recv_bit(rxdata, base + 7, nbits)
    + recv_bit(rxdata, base + 8, nbits) + recv_bit(rxdata, base + 9, nbits)
    + recv_bit(rxdata, base + 10, nbits) + recv_bit(rxdata, base + 11, nbits)
    + recv_bit(rxdata, base + 12, nbits) + recv_bit(rxdata, base + 13, nbits)
    + recv_bit(rxdata, base + 14, nbits) + recv_bit(rxdata, base + 15, nbits)

recv_val(rxdata, nbits) ==
    <<recv_limb(rxdata, 0, nbits), recv_limb(rxdata, 16, nbits)>>

\* recv_bits leaving the bits it read in the receive buffer
recv_bits_keep(rxdata, nbits) ==
    IF nbits <= Len(rxdata)
    THEN [val |-> recv_val(rxdata, nbits), rxdata |-> rxdata]
    ELSE [val |-> None, rxdata |-> rxdata]

\* Get some bits from the receive buffer: the value (None when the buffer
\* is too short) and the buffer that is left
recv_bits(rxdata, nbits) ==
    IF nbits <= Len(rxdata)
    THEN [val |-> recv_val(rxdata, nbits),
          rxdata |-> SubSeq(rxdata, nbits + 1, Len(rxdata))]
    ELSE [val |-> None, rxdata |-> rxdata]

\* xfer_rx with the received bits in the opposite order
xfer_rx_rev(txdata, levels) ==
    LET nsample == Cardinality({n \in 1..Len(txdata) : txdata[n] = "."})
    IN  [j \in 1..nsample |-> IF levels[nsample + 1 - j] # 0 THEN "1" ELSE "0"]

\* Send bits from transmit buffer, get any receive bits: levels are the
\* levels GPIO.input(DAT_PIN) finds at the sampled bits, in order.  The
\* loop appends one received bit for each "." of the transmit buffer.
xfer_rx(txdata, levels) ==
    LET nsample == Cardinality({n \in 1..Len(txdata) : txdata[n] = "."})
    IN  [j \in 1..nsample |-> IF levels[j] # 0 THEN "1" ELSE "0"]

xfer(txdata, levels) == [txdata |-> <<>>, rxdata |-> xfer_rx(txdata, levels)]

\* The GPIO calls the loop of xfer makes for one bit of the transmit buffer,
\* in order: "input" is GPIO.input(DAT_PIN), "setup_in" and "setup_out" are
\* GPIO.setup(DAT_PIN, ...), "out0" and "out1" are GPIO.output(DAT_PIN, ...),
\* "clk1" and "clk0" are GPIO.output(CLK_PIN, ...).  lastbit is "" for the
\* first bit of a transfer.
\* xfer never switching the data pin to input
xfer_bit_nosetup(bit, lastbit) ==
    IF bit = "."
    THEN <<"input", "clk1", "clk0">>
    ELSE (IF lastbit = "" \/ lastbit = "." THEN <<"setup_out">> ELSE <<>>)
         \o <<IF bit = "1" THEN "out1" ELSE "out0">> \o <<"clk1">> \o <<"clk0">>

xfer_bit(bit, lastbit) ==
    IF bit = "."
    THEN <<"input">>
         \o (IF bit # lastbit THEN <<"setup_in">> ELSE <<>>)
         \o <<"clk1">> \o <<"clk0">>
    ELSE (IF lastbit = "" \/ lastbit = "." THEN <<"setup_out">> ELSE <<>>)
         \o <<IF bit = "1" THEN "out1" ELSE "out0">>
         \o <<"clk1">> \o <<"clk0">>

\* The GPIO calls of one transfer, bit by bit
xfer_calls(txdata) ==
    [i \in 1..Len(txdata) |->
        [bit |-> txdata[i],
         ops |-> xfer_bit(txdata[i], IF i = 1 THEN "" ELSE txdata[i - 1])]]

\* s contains the call op
Has(s, op) == \E n \in 1..Len(s) : s[n] = op

\* The direction of the data pin after the calls of a transfer: that of the
\* last GPIO.setup(DAT_PIN, ...), or dir when there was none
dir_after(calls, dir) ==
    LET S == {j \in 1..Len(calls) :
                Has(calls[j].ops, "setup_in") \/ Has(calls[j].ops, "setup_out")}
    IN  IF S = {} THEN dir
        ELSE LET j == CHOOSE x \in S : \A y \in S : y <= x
             IN  IF Has(calls[j].ops, "setup_in") THEN "in" ELSE "out"

\* The record of one transfer on the pins: the direction of the data pin
\* when it began, and its calls
xfer_gpio(txdata, dir) == [dir0 |-> dir, calls |-> xfer_calls(txdata)]

\* ------------------------------------------------------------------------
\* BitReg: a register with multiple bit-fields
\* ------------------------------------------------------------------------
FieldNames(fields) == {fields[k][1] : k \in 1..Len(fields)}

\* A c_uint bit-field keeps the low width bits of what is stored in it
Trunc(val, width) ==
    IF width >= 32 THEN val
    ELSE IF width >= 16 THEN <<val[1], val[2] % Pow2(width - 16)>>
    ELSE <<val[1] % Pow2(width), 0>>

BitReg(fields, recv) ==
    [fields |-> fields, recv |-> recv,
     vals |-> [f \in FieldNames(fields) |-> U(0)]]

\* Width of the field called name
Width(fields, name) ==
    fields[CHOOSE w \in 1..Len(fields) : fields[w][1] = name][2]

setattr(reg, name, val) ==
    [reg EXCEPT !.vals[name] =
        IF val = None THEN None ELSE Trunc(val, Width(reg.fields, name))]

\* Transmit the bit values
RECURSIVE BitReg_send_from(_, _, _)
BitReg_send_from(reg, txdata, k) ==
    IF k > Len(reg.fields) THEN txdata
    ELSE BitReg_send_from(reg,
            send_bits(txdata, reg.vals[reg.fields[k][1]], reg.fields[k][2], reg.recv),
            k + 1)

BitReg_send_vals(reg, txdata) == BitReg_send_from(reg, txdata, 1)

\* Receive the bit values
RECURSIVE BitReg_recv_from(_, _, _)
BitReg_recv_from(reg, rxdata, k) ==
    IF k > Len(reg.fields) THEN [reg |-> reg, rxdata |-> rxdata]
    ELSE IF reg.recv
         THEN LET r == recv_bits(rxdata, reg.fields[k][2])
              IN  BitReg_recv_from(
                     [reg EXCEPT !.vals[reg.fields[k][1]] =
                         IF r.val = None THEN None
                         ELSE Trunc(r.val, reg.fields[k][2])],
                     r.rxdata, k + 1)
         ELSE BitReg_recv_from(reg, rxdata, k + 1)

BitReg_recv_vals(reg, rxdata) == BitReg_recv_from(reg, rxdata, 1)

\* ------------------------------------------------------------------------
\* SwdMsg: header, ack and 32-bit value
\* ------------------------------------------------------------------------
SwdMsg_init ==
    [regs |-> <<>>, ok |-> FALSE,
     hdr |-> [BitReg(swd_hdr, FALSE) EXCEPT
                 !.vals["Start"] = U(1), !.vals["Stop"] = U(0),
                 !.vals["Park"] = U(1)],
     turn1 |-> BitReg(swd_turn, TRUE),
     ack |-> BitReg(swd_ack, TRUE),
     turn2 |-> BitReg(swd_turn, TRUE),
     val32p |-> BitReg(swd_val32p, FALSE)]

\* Leave dormant state
arm_wakeup_msg(txdata) ==
    LET t1 == send_bytes(txdata, <<255>>, FALSE)
        t2 == send_bytes(t1, <<146, 243, 9, 98, 149, 45, 133, 134,
                               233, 175, 221, 227, 162, 14, 188, 25>>, FALSE)
        t3 == send_bits(t2, U(0), 4, FALSE)
    IN  send_bytes(t3, <<26>>, FALSE)

\* swd_reset_msg with six bytes of ones: 48 high bits
swd_reset_msg_short(txdata) ==
    send_bytes(txdata, <<255, 255, 255, 255, 255, 255, 0>>, FALSE)

\* SWD reset; at least 50 high bits then at least 2 low bits
swd_reset_msg(txdata) ==
    send_bytes(txdata, <<255, 255, 255, 255, 255, 255, 255, 0>>, FALSE)

\* set_regs with the frames of a read cycle whatever the direction
set_regs_rd(m, rd) == <<"hdr", "turn1", "ack", "val32p", "turn2">>

\* self.regs of SwdMsg.set (lines 208-209): the frames of the cycle in order
set_regs(m, rd) ==
    <<"hdr", "turn1", "ack">> \o
    (IF rd # 0 THEN <<"val32p", "turn2">> ELSE <<"turn2", "val32p">>)

\* hdr_parity without the second address bit
hdr_parity_a2(ap, rd, addr) ==
    AndW(XorW(XorW(U(ap), U(rd)), Shr(U(addr), 2)), U(1))

\* (ap ^ rd ^ (addr>>2) ^ (addr>>3)) & 1 (line 204)
hdr_parity(ap, rd, addr) ==
    AndW(XorW(XorW(U(ap), U(rd)), XorW(Shr(U(addr), 2), Shr(U(addr), 3))), U(1))

\* Set header for a read or write cycle, with data if write
SwdMsg_set(m, ap, rd, addr, val) ==
    [m EXCEPT
       !.hdr.vals["APnDP"] = Trunc(U(ap), Width(swd_hdr, "APnDP")),
       !.hdr.vals["RnW"] = Trunc(U(rd), Width(swd_hdr, "RnW")),
       !.hdr.vals["Addr"] = Trunc(Shr(U(addr), 2), Width(swd_hdr, "Addr")),
       !.hdr.vals["Parity"] =
           Trunc(hdr_parity(ap, rd, addr), Width(swd_hdr, "Parity")),
       !.val32p.vals["value"] = Trunc(val, Width(swd_val32p, "value")),
       !.val32p.vals["parity"] = Trunc(U(parity32(val)), Width(swd_val32p, "parity")),
       !.regs = set_regs(m, rd),
       !.val32p.recv = (rd # 0)]

\* Send values to transmit buffer
RECURSIVE SwdMsg_send_from(_, _, _)
SwdMsg_send_from(m, txdata, k) ==
    IF k > Len(m.regs) THEN txdata
    ELSE SwdMsg_send_from(m, BitReg_send_vals(m[m.regs[k]], txdata), k + 1)

SwdMsg_send_vals(m, txdata) == SwdMsg_send_from(m, txdata, 1)

\* check without the parity test
check_ack_only(m) == [m EXCEPT !.ok = (m.ack.vals["ack"] = U(1))]

\* Check ack-value, and parity if a read cycle
check(m) ==
    [m EXCEPT !.ok =
        (m.ack.vals["ack"] = U(1)
         /\ (m.hdr.vals["RnW"] = U(0)
             \/ U(parity32(m.val32p.vals["value"])) = m.val32p.vals["parity"]))]

\* Get values from receive buffer
RECURSIVE SwdMsg_recv_from(_, _, _)
SwdMsg_recv_from(m, rxdata, k) ==
    IF k > Len(m.regs) THEN [msg |-> check(m), rxdata |-> rxdata]
    ELSE LET r == BitReg_recv_vals(m[m.regs[k]], rxdata)
         IN  SwdMsg_recv_from([m EXCEPT ![m.regs[k]] = r.reg], r.rxdata, k + 1)

SwdMsg_recv_vals(m, rxdata) == SwdMsg_recv_from(m, rxdata, 1)

\* set(...).send_vals(): the message and the transmit buffer before the
\* transfer
cycle_send(m, txdata, ap, rd, addr, val) ==
    LET m1 == SwdMsg_set(m, ap, rd, addr, val)
    IN  [msg |-> m1, txdata |-> SwdMsg_send_vals(m1, txdata)]

\* .xfer().recv_vals(): the message and the buffers after the transfer of
\* what cycle_send prepared
cycle_recv(s, levels) ==
    LET x == xfer(s.txdata, levels)
        r == SwdMsg_recv_vals(s.msg, x.rxdata)
    IN  [msg |-> r.msg, txdata |-> x.txdata, rxdata |-> r.rxdata]

\* Do an SWD read cycle / Do an SWD write cycle
cycle(m, txdata, ap, rd, addr, val, levels) ==
    cycle_recv(cycle_send(m, txdata, ap, rd, addr, val), levels)

\* ------------------------------------------------------------------------
\* The target (environment)
\* ------------------------------------------------------------------------
DP_CORE0 == W(256, 10535)
DP_CORE1 == W(4352, 10535)
test_addr == W(53248, 4)

\* Bounds of the environment
NumWords == 2
MaxConn == 4

\* Data words the target may put on the line: the DPIDR of the RP2040
\* (0x0bc12477), a word with the top bit set and odd parity, and others
WordTab == <<W(3009, 9335), W(32768, 0), W(65535, 65535), W(0, 1)>>
DataWords == {WordTab[((i - 1) % Len(WordTab)) + 1] : i \in 1..NumWords}

\* Ack codes the target may answer: OK, WAIT, FAULT, and 7 when nothing
\* drives the line and its pull-up holds it high
AckCodes == {SWD_ACK_OK, SWD_ACK_WAIT, SWD_ACK_ERROR, 7}

\* Addresses a caller may ask for
Addrs == {test_addr}

\* The answers of the target to one cycle: the level during the two
\* turnaround bits, the ack, and in a read cycle the data word and its
\* parity bit.  The target drives the data phase of a read only after an OK;
\* after any other ack the pulled-up line is sampled as ones.
Responses(rd) ==
    IF rd # 0
    THEN [turn : {0, 1}, ack : {SWD_ACK_OK}, value : DataWords, parity : {0, 1}]
         \cup [turn : {0, 1}, ack : AckCodes \ {SWD_ACK_OK},
               value : {W(65535, 65535)}, parity : {1}]
    ELSE [turn : {0, 1}, ack : AckCodes, value : {U(0)}, parity : {0}]

\* Parity of a word as the protocol defines it: the number of set bits mod 2
PopCount(w, n) == Cardinality({b \in 0..(n - 1) : TestBit(w, b)})

\* The target's answer is an OK with a data word of correct parity
GoodResponse(rd, resp) ==
    /\ resp.ack = SWD_ACK_OK
    /\ rd # 0 => resp.parity = PopCount(resp.value, 32) % 2

\* Levels of the data line at the sampled bits of one cycle, least
\* significant bit first: turnaround, ack, (data, parity,) turnaround
Levels(rd, resp) ==
    <<resp.turn>> \o [n \in 1..3 |-> IF TestBit(U(resp.ack), n - 1) THEN 1 ELSE 0]
    \o (IF rd # 0
        THEN [n \in 1..32 |-> IF TestBit(resp.value, n - 1) THEN 1 ELSE 0]
             \o <<resp.parity>>
        ELSE <<>>)
    \o <<resp.turn>>

\* ------------------------------------------------------------------------
\* SwdConnection
\* ------------------------------------------------------------------------
VARIABLES
    connected,  \* SwdConnection.connected
    dp,         \* SwdConnection.dp
    msg,        \* SwdConnection.msg
    txdata,     \* GpioDrv.txdata
    rxdata,     \* GpioDrv.rxdata
    pc,         \* position of the program
    k,          \* number of the next cycle inside power_up / peek
    func,       \* conn_func_retry: func (None or "peek")
    args,       \* conn_func_retry: args (the address for peek)
    tries,      \* conn_func_retry: tries
    val,        \* conn_func_retry: val
    dpidr,      \* conn_func_retry: dpidr
    apidr,      \* conn_func_retry: apidr
    idr,        \* power_up: idr
    hist,       \* history of the current call, read by the properties only
    gpio,       \* the GPIO calls of the last transfer (GpioDrv.xfer)
    dat_dir,    \* direction of DAT_PIN: "in" or "out"
    clk_dir,    \* direction of CLK_PIN: "in" or "out"
    sess_dp     \* the identifier the last connect wrote to DP 0xc

pins == <<gpio, dat_dir, clk_dir>>

vars == <<connected, dp, msg, txdata, rxdata, pc, k, func, args, tries, val,
          dpidr, apidr, idr, hist, gpio, dat_dir, clk_dir, sess_dp>>

\* The cycles of power_up in order (lines 299-308)
power_up_seq ==
    << [rd |-> SWD_WR, ap |-> SWD_DP, addr |-> 0,  val |-> U(30)],
       [rd |-> SWD_WR, ap |-> SWD_DP, addr |-> 8,  val |-> U(0)],
       [rd |-> SWD_WR, ap |-> SWD_DP, addr |-> 4,  val |-> W(20480, 1)],
       [rd |-> SWD_RD, ap |-> SWD_DP, addr |-> 4,  val |-> U(0)],
       [rd |-> SWD_WR, ap |-> SWD_DP, addr |-> 8,  val |-> U(240)],
       [rd |-> SWD_RD, ap |-> SWD_AP, addr |-> 12, val |-> U(0)],
       [rd |-> SWD_RD, ap |-> SWD_DP, addr |-> 12, val |-> U(0)],
       [rd |-> SWD_WR, ap |-> SWD_AP, addr |-> 0,  val |-> W(41472, 18)],
       [rd |-> SWD_WR, ap |-> SWD_DP, addr |-> 8,  val |-> U(0)] >>

\* The cycles of peek in order (lines 313-315)
peek_seq(addr) ==
    << [rd |-> SWD_WR, ap |-> SWD_AP, addr |-> 4,  val |-> addr],
       [rd |-> SWD_RD, ap |-> SWD_AP, addr |-> 12, val |-> U(0)],
       [rd |-> SWD_RD, ap |-> SWD_DP, addr |-> 12, val |-> U(0)] >>

\* The cycle of get_dpidr (line 294)
get_dpidr_seq == << [rd |-> SWD_RD, ap |-> SWD_DP, addr |-> 0, val |-> U(0)] >>

\* self.msg.val32p.vals.value if self.msg.ok else None (lines 295, 306, 316)
get_dpidr_ret(m) == IF m.ok THEN m.val32p.vals["value"] ELSE None
power_up_idr(m) == IF m.ok THEN m.val32p.vals["value"] ELSE None
peek_ret(m) == IF m.ok THEN m.val32p.vals["value"] ELSE None

\* return idr if self.msg.ok else None (line 309)
power_up_ret(m, i) == IF m.ok THEN i ELSE None

\* connect returning the check of its write
connect_ret_ok(m) == m.ok

\* return True (line 285): connect reports success whatever its write got
connect_ret(m) == TRUE

\* decr without the decrement
decr_keep(t) == t

\* tries -= 1 (lines 339, 346)
decr(t) == t - 1

\* loop_cond with one more round than the budget
loop_cond_ge(t, v) == t >= 0 /\ v = None

\* while tries>0 and val is None (line 323)
loop_cond(t, v) == t > 0 /\ v = None

\* History of a call that has not started (estab alone outlives the call)
NoHist ==
    [startConn |-> FALSE,   \* connected at entry
     nConn |-> 0,           \* connect sequences (counted up to MaxConn)
     traffic |-> FALSE,     \* some transfer was made
     opInvoked |-> FALSE,   \* func was invoked
     decremented |-> FALSE, \* tries was decremented
     estab |-> FALSE,       \* the last connect sequence was followed by a
                            \* DPIDR read and a power_up that returned values
     estabCall |-> FALSE,   \* so was some connect sequence of this call
     allFault |-> TRUE,     \* the target answered FAULT to every checked cycle
     allGood |-> TRUE,      \* the target answered every checked cycle well
     sessFail |-> FALSE,    \* a cycle since the last connect failed its check
     op |-> None,           \* get_dpidr, power_up or peek: the current one
     opFail |-> FALSE,      \* a cycle of the current operation failed its check
     opSeq |-> <<>>,        \* the cycles of the current operation
     scen |-> "off",        \* progress of the transient-failure scenario
     wire |-> None,         \* data word of the target in the last read cycle
     dpidrWire |-> None,    \* data word of the target in the last DPIDR read
     disc |-> 0,            \* disconnect calls in a row (counted up to 2)
     discWas |-> FALSE,     \* connected before the first of them
     discDp |-> None,       \* dp before the first of them
     discState |-> None,    \* connected, dp and txdata after the first of them
     txDone |-> FALSE,      \* the driver harness did a cycle
     txPrev |-> -1,         \* RnW of the cycle before the last one, -1: none
     tx |-> [ap |-> 0, rd |-> 0, addr |-> 0, val |-> <<0, 0>>,
             resp |-> [turn |-> 0, ack |-> 0, value |-> <<0, 0>>, parity |-> 0]],
                            \* the last one: what was asked, what the target
                            \* answered
     txRx |-> <<>>,         \* what xfer returned in the last one
     setDone |-> FALSE,     \* set was called, with the arguments in tx
     codec |-> [shape |-> "none", vals |-> <<>>, bits |-> <<>>, out |-> <<>>,
                rest |-> <<>>],
                            \* the last frame encoded and decoded again: its
                            \* shape, its values, the bits sent, the values
                            \* received, the receive buffer left
     exit |-> None,         \* how the program ended: "sigint", "end", "close"
     pending |-> 0]         \* bits in the transmit buffer when SIGINT arrived

Init ==
    /\ connected = FALSE
    /\ dp = DP_CORE0
    /\ msg = SwdMsg_init
    /\ txdata = <<>>
    /\ rxdata = <<>>
    /\ pc = "idle"
    /\ k = 0
    /\ func = None
    /\ args = None
    /\ tries = 0
    /\ val = None
    /\ dpidr = None
    /\ apidr = None
    /\ idr = None
    /\ hist = NoHist
    /\ gpio = xfer_gpio(<<>>, "in")
    /\ dat_dir = "in"
    /\ clk_dir = "out"
    /\ sess_dp = None

\* The scenario "WAIT on the first read attempt after a successful
\* connection, OK on everything in the next full retry cycle":
\*   "c1"  started disconnected, every checked cycle answered well so far
\*   "w1"  ... and then the first read cycle of peek was answered WAIT
\*   "w2"  ... and since the end of that peek every checked cycle was
\*         answered well
\*   "off" anything else
ScenAfter(scen, op, n, good, resp) ==
    CASE scen = "c1" /\ op = "peek" /\ n = 2 ->
            IF resp.ack = SWD_ACK_WAIT THEN "w1" ELSE "off"
      [] scen = "c1" /\ ~(op = "peek" /\ n = 2) -> IF good THEN "c1" ELSE "off"
      [] scen = "w1" -> "w2"
      [] scen = "w2" -> IF good THEN "w2" ELSE "off"
      [] OTHER -> "off"

\* History at the start of get_dpidr, power_up or peek
HistOp(h, op) == [h EXCEPT !.op = op, !.opFail = FALSE, !.opSeq = <<>>]

\* History after the n-th cycle c of the current operation, which the target
\* answered with resp and which left the message m
HistCycle(h, n, c, resp, m) ==
    LET good == GoodResponse(c.rd, resp)
    IN  [h EXCEPT !.traffic = TRUE,
                  !.allFault = @ /\ resp.ack = SWD_ACK_ERROR,
                  !.allGood = @ /\ good,
                  !.sessFail = @ \/ ~m.ok,
                  !.opFail = @ \/ ~m.ok,
                  !.opSeq = Append(@, <<c.rd, c.ap, c.addr>>),
                  !.scen = ScenAfter(@, h.op, n, good, resp),
                  !.wire = IF c.rd # 0 THEN resp.value ELSE @]

Inc(n) == IF n < MaxConn THEN n + 1 ELSE n

\* History after a call of disconnect that left the connection state st
HistDisc(h, was, d, st) ==
    IF h.disc = 0
    THEN [h EXCEPT !.disc = 1, !.discWas = was, !.discDp = d, !.discState = st]
    ELSE [h EXCEPT !.disc = 2]

\* History after a call of something else
NoDisc(h) ==
    [h EXCEPT !.disc = 0, !.discWas = FALSE, !.discDp = None,
              !.discState = None]

\* --- the callers: the polling loop of __main__ and the Qt window ---------

\* conn_func_retry is entered (lines 320-322)
Call(f, a) ==
    /\ pc = "idle"
    /\ pc' = "loop"
    /\ func' = f
    /\ args' = a
    /\ val' = None
    /\ tries' = NUM_TRIES
    /\ hist' = [NoHist EXCEPT
                  !.startConn = connected,
                  !.estab = hist.estab,
                  !.scen = IF ~connected /\ f = "peek" THEN "c1" ELSE "off"]
    /\ UNCHANGED <<connected, dp, msg, txdata, rxdata, k, dpidr, apidr, idr>>
    /\ UNCHANGED <<pins, sess_dp>>

\* Set core number (0 or 1)
set_core(core) ==
    /\ pc = "idle"
    /\ dp' = IF core # 0 THEN DP_CORE1 ELSE DP_CORE0
    /\ hist' = NoDisc(hist)
    /\ UNCHANGED <<connected, msg, txdata, rxdata, pc, k, func, args, tries,
                   val, dpidr, apidr, idr>>
    /\ UNCHANGED <<pins, sess_dp>>

\* Disconnect from device
disconnect ==
    /\ pc = "idle"
    /\ \E t \in {swd_reset_msg(txdata)} :
       \E x \in {xfer(t, <<>>)} :
       \E g \in {xfer_gpio(t, dat_dir)} :
         /\ txdata' = x.txdata
         /\ rxdata' = x.rxdata
         /\ gpio' = g
         /\ dat_dir' = dir_after(g.calls, dat_dir)
         /\ hist' = HistDisc(hist, connected, dp, <<FALSE, dp, x.txdata>>)
    /\ connected' = FALSE
    /\ UNCHANGED <<clk_dir, sess_dp>>
    /\ UNCHANGED <<dp, msg, pc, k, func, args, tries, val, dpidr, apidr, idr>>

\* --- conn_func_retry ------------------------------------------------------

\* Loop without the test of self.connected: every round connects
Loop_reconnect ==
    /\ pc = "loop"
    /\ pc' = IF loop_cond(tries, val) THEN "connect" ELSE "ret"
    /\ UNCHANGED <<connected, dp, msg, txdata, rxdata, k, func, args, tries,
                   val, dpidr, apidr, idr, hist>>
    /\ UNCHANGED <<pins, sess_dp>>

\* while tries>0 and val is None / if not self.connected (lines 323-324)
Loop ==
    /\ pc = "loop"
    /\ pc' = IF loop_cond(tries, val)
             THEN (IF ~connected THEN "connect" ELSE "dispatch")
             ELSE "ret"
    /\ UNCHANGED <<connected, dp, msg, txdata, rxdata, k, func, args, tries,
                   val, dpidr, apidr, idr, hist>>
    /\ UNCHANGED <<pins, sess_dp>>

\* connect: the wake-up and reset transfer (line 283)
connect_wake ==
    /\ pc = "connect"
    /\ \E t \in {swd_reset_msg(arm_wakeup_msg(txdata))} :
       \E x \in {xfer(t, <<>>)} :
       \E g \in {xfer_gpio(t, dat_dir)} :
         /\ txdata' = x.txdata
         /\ rxdata' = x.rxdata
         /\ gpio' = g
         /\ dat_dir' = dir_after(g.calls, dat_dir)
    /\ UNCHANGED <<clk_dir, sess_dp>>
    /\ hist' = [hist EXCEPT !.nConn = Inc(@), !.traffic = TRUE,
                            !.estab = FALSE, !.sessFail = FALSE]
    /\ pc' = "select"
    /\ UNCHANGED <<connected, dp, msg, k, func, args, tries, val, dpidr, apidr,
                   idr>>

\* connect: the unchecked write of the core id to DP 0xc, and
\* self.connected = True (lines 284-285, 325)
connect_select ==
    /\ pc = "select"
    /\ \E s \in {cycle_send(msg, txdata, SWD_DP, SWD_WR, 12, dp)} :
       \E resp \in Responses(SWD_WR) :
       \E r \in {cycle_recv(s, Levels(SWD_WR, resp))} :
         /\ msg' = r.msg
         /\ txdata' = r.txdata
         /\ rxdata' = r.rxdata
         /\ \E g \in {xfer_gpio(s.txdata, dat_dir)} :
              /\ gpio' = g
              /\ dat_dir' = dir_after(g.calls, dat_dir)
         /\ IF connect_ret(r.msg)
            THEN /\ connected' = TRUE
                 /\ pc' = "get_dpidr"
            ELSE /\ connected' = connected
                 /\ pc' = "dispatch"
    /\ sess_dp' = dp
    /\ UNCHANGED clk_dir
    /\ UNCHANGED <<dp, k, func, args, tries, val, dpidr, apidr, idr, hist>>

\* dpidr = self.get_dpidr() and the test of it (lines 326-329)
get_dpidr ==
    /\ pc = "get_dpidr"
    /\ \E c \in {get_dpidr_seq[1]} :
       \E s \in {cycle_send(msg, txdata, c.ap, c.rd, c.addr, c.val)} :
       \E resp \in Responses(c.rd) :
       \E r \in {cycle_recv(s, Levels(c.rd, resp))} :
       \E d \in {get_dpidr_ret(r.msg)} :
         /\ msg' = r.msg
         /\ txdata' = r.txdata
         /\ rxdata' = r.rxdata
         /\ \E g \in {xfer_gpio(s.txdata, dat_dir)} :
              /\ gpio' = g
              /\ dat_dir' = dir_after(g.calls, dat_dir)
         /\ dpidr' = d
         /\ hist' = [HistCycle(HistOp(hist, "get_dpidr"), 1, c, resp, r.msg)
                       EXCEPT !.dpidrWire = resp.value]
         /\ IF d = None
            THEN /\ connected' = FALSE
                 /\ pc' = "dispatch"
                 /\ k' = k
            ELSE /\ connected' = connected
                 /\ pc' = "power_up"
                 /\ k' = 1
    /\ UNCHANGED <<dp, func, args, tries, val, apidr, idr>>
    /\ UNCHANGED <<clk_dir, sess_dp>>

\* One cycle of power_up; after the last one, the test of apidr
\* (lines 299-309, 332-337)
power_up ==
    /\ pc = "power_up"
    /\ \E c \in {power_up_seq[k]} :
       \E s \in {cycle_send(msg, txdata, c.ap, c.rd, c.addr, c.val)} :
       \E resp \in Responses(c.rd) :
       \E r \in {cycle_recv(s, Levels(c.rd, resp))} :
       \E h \in {HistCycle(IF k = 1 THEN HistOp(hist, "power_up") ELSE hist,
                           k, c, resp, r.msg)} :
       \E i \in {IF k = 7 THEN power_up_idr(r.msg) ELSE idr} :
         /\ msg' = r.msg
         /\ txdata' = r.txdata
         /\ rxdata' = r.rxdata
         /\ \E g \in {xfer_gpio(s.txdata, dat_dir)} :
              /\ gpio' = g
              /\ dat_dir' = dir_after(g.calls, dat_dir)
         /\ IF k < Len(power_up_seq)
            THEN /\ k' = k + 1
                 /\ idr' = i
                 /\ hist' = h
                 /\ UNCHANGED <<pc, apidr, connected, tries>>
            ELSE \E a \in {power_up_ret(r.msg, i)} :
                   /\ k' = 0
                   /\ idr' = None
                   /\ pc' = "dispatch"
                   /\ apidr' = a
                   /\ IF a = None
                      THEN /\ connected' = FALSE
                           /\ tries' = tries
                           /\ hist' = h
                      ELSE /\ connected' = connected
                           /\ tries' = NUM_TRIES
                           /\ hist' = [h EXCEPT !.estab = TRUE,
                                                !.estabCall = TRUE]
    /\ UNCHANGED <<dp, func, args, val, dpidr>>
    /\ UNCHANGED <<clk_dir, sess_dp>>

\* if not self.connected / elif not func / else (lines 338-343)
dispatch ==
    /\ pc = "dispatch"
    /\ IF ~connected
       THEN /\ tries' = decr(tries)
            /\ pc' = "loop"
            /\ hist' = [hist EXCEPT !.decremented = TRUE]
            /\ k' = k
       ELSE IF func = None
       THEN /\ pc' = "ret"
            /\ UNCHANGED <<tries, hist, k>>
       ELSE /\ pc' = "peek"
            /\ k' = 1
            /\ hist' = [HistOp(hist, "peek") EXCEPT !.opInvoked = TRUE]
            /\ tries' = tries
    /\ UNCHANGED <<connected, dp, msg, txdata, rxdata, func, args, val, dpidr,
                   apidr, idr>>
    /\ UNCHANGED <<pins, sess_dp>>

\* One cycle of peek; after the last one, the test of val
\* (lines 313-316, 343-348)
peek ==
    /\ pc = "peek"
    /\ \E c \in {peek_seq(args)[k]} :
       \E s \in {cycle_send(msg, txdata, c.ap, c.rd, c.addr, c.val)} :
       \E resp \in Responses(c.rd) :
       \E r \in {cycle_recv(s, Levels(c.rd, resp))} :
       \E h \in {HistCycle(hist, k, c, resp, r.msg)} :
         /\ msg' = r.msg
         /\ txdata' = r.txdata
         /\ rxdata' = r.rxdata
         /\ \E g \in {xfer_gpio(s.txdata, dat_dir)} :
              /\ gpio' = g
              /\ dat_dir' = dir_after(g.calls, dat_dir)
         /\ IF k < Len(peek_seq(args))
            THEN /\ k' = k + 1
                 /\ hist' = h
                 /\ UNCHANGED <<pc, val, connected, tries>>
            ELSE \E v \in {peek_ret(r.msg)} :
                   /\ k' = 0
                   /\ pc' = "loop"
                   /\ val' = v
                   /\ IF v = None
                      THEN /\ connected' = FALSE
                           /\ tries' = decr(tries)
                           /\ hist' = [h EXCEPT !.decremented = TRUE]
                      ELSE /\ connected' = connected
                           /\ tries' = NUM_TRIES
                           /\ hist' = h
    /\ UNCHANGED <<dp, func, args, dpidr, apidr, idr>>
    /\ UNCHANGED <<clk_dir, sess_dp>>

\* return val (line 349): the locals of the call are gone
Return ==
    /\ pc = "ret"
    /\ pc' = "idle"
    /\ func' = None
    /\ args' = None
    /\ tries' = 0
    /\ val' = None
    /\ dpidr' = None
    /\ apidr' = None
    /\ idr' = None
    /\ k' = 0
    /\ hist' = [NoHist EXCEPT !.estab = hist.estab]
    /\ UNCHANGED <<connected, dp, msg, txdata, rxdata>>
    /\ UNCHANGED <<pins, sess_dp>>

\* The steps of a call in progress
Step ==
    \/ Loop
    \/ connect_wake
    \/ connect_select
    \/ get_dpidr
    \/ power_up
    \/ dispatch
    \/ peek
    \/ Return

Next ==
    \/ \E f \in {None, "peek"} : \E a \in Addrs : Call(f, a)
    \/ \E core \in {0, 1} : set_core(core)
    \/ disconnect
    \/ Step

Spec == Init /\ [][Next]_vars

\* --- the ends of the program ---------------------------------------------

\* The cycle the program does next at a position where it does one
NextCycle ==
    CASE pc = "select" -> [rd |-> SWD_WR, ap |-> SWD_DP, addr |-> 12, val |-> dp]
      [] pc = "get_dpidr" -> get_dpidr_seq[1]
      [] pc = "power_up" -> power_up_seq[k]
      [] pc = "peek" -> peek_seq(args)[k]

\* What the program has put into the message and the transmit buffer when it
\* is about to call xfer, at a position where it makes a transfer
NextTransfer ==
    IF pc = "connect"
    THEN [msg |-> msg, txdata |-> swd_reset_msg(arm_wakeup_msg(txdata))]
    ELSE LET c == NextCycle
         IN  cycle_send(msg, txdata, c.ap, c.rd, c.addr, c.val)

\* Numbers of bits that xfer may have clocked when the signal arrives
IntrAt == {0, 4, 10}

\* GpioDrv.close: both pins are inputs again
close ==
    /\ dat_dir' = "in"
    /\ clk_dir' = "in"

\* The program is gone, and the locals of a call with it
exited(how, npending) ==
    /\ pc' = "exited"
    /\ func' = None
    /\ args' = None
    /\ tries' = 0
    /\ val' = None
    /\ dpidr' = None
    /\ apidr' = None
    /\ idr' = None
    /\ k' = 0
    /\ hist' = [NoHist EXCEPT !.estab = hist.estab, !.exit = how,
                              !.discWas = connected, !.pending = npending]

\* Handle ctrl-C (lines 352-356).  Python runs the handler between two
\* bytecodes of the main thread: between two statements of the program, when
\* the transmit buffer is as the last transfer left it, or (mid) when a
\* transfer is encoded in the buffer and xfer has clocked j bits of it.  The
\* handler calls disconnect, whose xfer starts at the head of the buffer,
\* then close, then sys.exit.  What that xfer samples is read by nobody: the
\* levels are those of a line that the pull-up holds high.
sigint_handler ==
    /\ pc # "exited"
    /\ \E mid \in IF pc \in {"connect", "select", "get_dpidr", "power_up", "peek"}
                   THEN BOOLEAN ELSE {FALSE} :
       \E s \in {IF mid THEN NextTransfer ELSE [msg |-> msg, txdata |-> txdata]} :
       \E j \in {n \in IntrAt : n = 0 \/ (mid /\ n <= Len(s.txdata))} :
       \E d \in {dir_after(xfer_calls(SubSeq(s.txdata, 1, j)), dat_dir)} :
       \E t \in {swd_reset_msg(s.txdata)} :
       \E x \in {xfer(t, [n \in 1..Len(t) |-> 1])} :
         /\ msg' = s.msg
         /\ txdata' = x.txdata
         /\ rxdata' = x.rxdata
         /\ gpio' = xfer_gpio(t, d)
         /\ exited("sigint", Len(s.txdata))
    /\ connected' = FALSE
    /\ close
    /\ UNCHANGED <<dp, sess_dp>>

\* conn.disconnect() at the end of __main__ (line 385), and the end of the
\* program: close is not called
main_end ==
    /\ pc = "idle"
    /\ \E t \in {swd_reset_msg(txdata)} :
       \E x \in {xfer(t, <<>>)} :
       \E g \in {xfer_gpio(t, dat_dir)} :
         /\ txdata' = x.txdata
         /\ rxdata' = x.rxdata
         /\ gpio' = g
         /\ dat_dir' = dir_after(g.calls, dat_dir)
    /\ connected' = FALSE
    /\ exited("end", 0)
    /\ UNCHANGED <<dp, msg, clk_dir, sess_dp>>

\* MainWindow.closeEvent (picoreg_qt.py, lines 394-398): disconnect when
\* connected, then close
closeEvent ==
    /\ pc = "idle"
    /\ IF connected
       THEN \E t \in {swd_reset_msg(txdata)} :
            \E x \in {xfer(t, <<>>)} :
              /\ txdata' = x.txdata
              /\ rxdata' = x.rxdata
              /\ gpio' = xfer_gpio(t, dat_dir)
       ELSE UNCHANGED <<txdata, rxdata, gpio>>
    /\ connected' = FALSE
    /\ close
    /\ exited("close", 0)
    /\ UNCHANGED <<dp, msg, sess_dp>>

ExitNext ==
    \/ Next
    \/ sigint_handler
    \/ main_end
    \/ closeEvent

\* The program with its ends
ExitSpec == Init /\ [][ExitNext]_vars

\* --- SwdMsg and GpioDrv on their own --------------------------------------

\* Registers and the answers of a target that may drive the data
\* phase of a read after any of the eight acks
TxRegs == {[ap |-> SWD_DP, addr |-> 0], [ap |-> SWD_AP, addr |-> 12]}
TxResponses(rd) ==
    IF rd # 0
    THEN [turn : {0, 1}, ack : 0..7, value : DataWords, parity : {0, 1}]
    ELSE [turn : {0, 1}, ack : 0..7, value : {U(0)}, parity : {0}]

\* One SwdMsg.read or SwdMsg.write on the message object, whatever the cycle
\* before was
Transact ==
    /\ pc = "idle"
    /\ \E reg \in TxRegs : \E rd \in {SWD_WR, SWD_RD} :
       \E v \in IF rd # 0 THEN {U(0)} ELSE DataWords :
       \E s \in {cycle_send(msg, txdata, reg.ap, rd, reg.addr, v)} :
       \E resp \in TxResponses(rd) :
       \E r \in {cycle_recv(s, Levels(rd, resp))} :
       \E g \in {xfer_gpio(s.txdata, dat_dir)} :
         /\ msg' = r.msg
         /\ txdata' = r.txdata
         /\ rxdata' = r.rxdata
         /\ gpio' = g
         /\ dat_dir' = dir_after(g.calls, dat_dir)
         /\ hist' = [NoDisc(hist) EXCEPT
                       !.txDone = TRUE,
                       !.txPrev = IF hist.txDone THEN hist.tx.rd ELSE -1,
                       !.txRx = xfer(s.txdata, Levels(rd, resp)).rxdata,
                       !.tx = [ap |-> reg.ap, rd |-> rd, addr |-> reg.addr,
                               val |-> v, resp |-> resp]]
    /\ UNCHANGED <<connected, dp, pc, k, func, args, tries, val, dpidr, apidr,
                   idr, clk_dir, sess_dp>>

TxNext ==
    \/ Transact
    \/ disconnect

\* Reads, writes and line resets in any order
TxSpec == Init /\ [][TxNext]_vars

\* The frame shapes of the program
Shapes == [hdr |-> swd_hdr, ack |-> swd_ack, turn |-> swd_turn,
           val32p |-> swd_val32p]

\* The values that fit a field of width bits (of the 32-bit words, those of
\* DataWords)
FieldVals(width) ==
    IF width = 32 THEN DataWords ELSE {U(n) : n \in 0..(Pow2(width) - 1)}

\* The assignments of fitting values to the fields of a shape
Assignments(fields) ==
    {a \in [FieldNames(fields) ->
               UNION {FieldVals(fields[j][2]) : j \in 1..Len(fields)}] :
        \A j \in 1..Len(fields) : a[fields[j][1]] \in FieldVals(fields[j][2])}

AllAssignments == [sh \in DOMAIN Shapes |-> Assignments(Shapes[sh])]

\* A frame in driven mode puts its values in an empty transmit buffer
\* (BitReg.send_vals), and a frame of the same shape in sampled mode takes
\* its values from a receive buffer holding these bits (BitReg.recv_vals).
\* The codec reads nothing of the message object: it is exercised on the
\* object as constructed.
codec_round_trip ==
    /\ pc = "idle"
    /\ msg = SwdMsg_init
    /\ \E sh \in DOMAIN Shapes : \E a \in AllAssignments[sh] :
       \E bits \in {BitReg_send_vals([BitReg(Shapes[sh], FALSE) EXCEPT !.vals = a],
                                     <<>>)} :
       \E r \in {BitReg_recv_vals(BitReg(Shapes[sh], TRUE), bits)} :
         hist' = [NoHist EXCEPT
                    !.codec = [shape |-> sh, vals |-> a, bits |-> bits,
                               out |-> r.reg.vals, rest |-> r.rxdata]]
    /\ UNCHANGED <<connected, dp, msg, txdata, rxdata, pc, k, func, args, tries,
                   val, dpidr, apidr, idr, pins, sess_dp>>

\* The register addresses of a debug port or access port bank
RegAddrs == {0, 4, 8, 12}

\* SwdMsg.set on the message object, whatever it held
set_header ==
    /\ pc = "idle"
    /\ \E ap \in {SWD_DP, SWD_AP} : \E rd \in {SWD_WR, SWD_RD} :
       \E addr \in RegAddrs : \E v \in DataWords :
         /\ msg' = SwdMsg_set(msg, ap, rd, addr, v)
         /\ hist' = [NoHist EXCEPT
                       !.setDone = TRUE,
                       !.tx.ap = ap, !.tx.rd = rd, !.tx.addr = addr,
                       !.tx.val = v]
    /\ UNCHANGED <<connected, dp, txdata, rxdata, pc, k, func, args, tries,
                   val, dpidr, apidr, idr, pins, sess_dp>>

CodecNext ==
    \/ codec_round_trip
    \/ set_header

\* The field codec and the header builder alone, on any inputs
CodecSpec == Init /\ [][CodecNext]_vars

\* The positions of a call
PCs ==
    {"idle", "loop", "connect", "select", "get_dpidr", "power_up", "dispatch",
     "peek", "ret"}

\* A call in progress moves on: every step of it changes pc or k
Running == pc # "idle" /\ pc' \in PCs /\ k' \in 0..Len(power_up_seq)

\* conn_func_retry is straight-line code on one thread, and a transfer
\* never waits for the target (xfer samples the line, whatever is on it):
\* a call in progress always takes its next step.
FairSpec == Init /\ [][Next]_vars /\ WF_<<pc, k>>(Running)

\* ------------------------------------------------------------------------
\* Properties
\* ------------------------------------------------------------------------

\* The cycles of power_up and of peek, as (RnW, APnDP, address)
PowerUpOrder ==
    << <<SWD_WR, SWD_DP, 0>>, <<SWD_WR, SWD_DP, 8>>, <<SWD_WR, SWD_DP, 4>>,
       <<SWD_RD, SWD_DP, 4>>, <<SWD_WR, SWD_DP, 8>>, <<SWD_RD, SWD_AP, 12>>,
       <<SWD_RD, SWD_DP, 12>>, <<SWD_WR, SWD_AP, 0>>, <<SWD_WR, SWD_DP, 8>> >>
PeekOrder ==
    << <<SWD_WR, SWD_AP, 4>>, <<SWD_RD, SWD_AP, 12>>, <<SWD_RD, SWD_DP, 12>> >>

\* power_up has just returned / peek has just returned
PowerUpReturned ==
    pc = "dispatch" /\ hist.op = "power_up" /\ Len(hist.opSeq) = Len(power_up_seq)
PeekReturned ==
    pc = "loop" /\ hist.op = "peek" /\ Len(hist.opSeq) = Len(peek_seq(args))

\* C1: every call of conn_func_retry terminates, whatever the target
\* answers: a call that has been entered eventually returns.
C1_EveryCallTerminates == (pc = "loop") ~> (pc = "ret")

\* C2: when the target answers FAULT to every checked cycle, a call that
\* started disconnected makes at most NUM_TRIES connect sequences and
\* returns no value.
C2_RetryExhaustion ==
    (pc # "idle" /\ hist.allFault /\ ~hist.startConn) =>
        /\ hist.nConn <= NUM_TRIES
        /\ val = None
        /\ pc = "ret" => (hist.nConn = NUM_TRIES /\ ~connected)

C2_Witness ==
    /\ pc = "ret" /\ func = "peek" /\ hist.allFault /\ ~hist.startConn
    /\ hist.traffic /\ hist.nConn = NUM_TRIES /\ val = None

\* C3: a failed cycle in power_up or in the invoked operation is never
\* ignored: no value is returned from a session in which a cycle since the
\* last connect sequence failed its check.
C3_NoFailureIgnored == (pc = "ret" /\ val # None) => ~hist.sessFail

\* C4: peek does a write to AP 4, a read of AP 0xc and a read of DP 0xc in
\* this order, and returns a value only if all three passed their check.
C4_PeekAllChecked ==
    PeekReturned =>
        /\ hist.opSeq = PeekOrder
        /\ val # None => ~hist.opFail

\* C5: power_up does its nine cycles in order and returns the
\* identification value only if every one of them passed its check.
C5_PowerUpAllChecked ==
    PowerUpReturned =>
        /\ hist.opSeq = PowerUpOrder
        /\ apidr # None => ~hist.opFail

\* C6: started disconnected, with WAIT on the first read cycle of peek after
\* a good connection and good answers in the next retry cycle, the call
\* returns a value and has made exactly one reconnection (two connect
\* sequences in all).
C6_TransientRecovery ==
    (pc = "ret" /\ hist.scen = "w2") => (val # None /\ hist.nConn = 2)

\* C7: connected is true only if the last connect sequence was followed by
\* a DPIDR read and a power_up that both returned a value.
C7_ConnectedOnlyAfterHandshake == connected => hist.estab

\* C8: at every return of conn_func_retry called with an operation, a value
\* comes with connected true, and no value comes with connected false and
\* tries at zero; and the operation is invoked only in an established
\* session, which a call that started disconnected has established itself.
C8_ReturnState ==
    /\ (pc = "ret" /\ func # None) =>
          /\ val # None => connected
          /\ val = None => (~connected /\ tries = 0)
    /\ pc = "peek" => (connected /\ hist.estab)
    /\ (hist.opInvoked /\ ~hist.startConn) => hist.estabCall

C8_Witness ==
    /\ pc = "ret" /\ func = "peek" /\ val = None /\ ~connected /\ tries = 0
    /\ hist.opInvoked /\ hist.estabCall /\ ~hist.startConn

\* C9: started disconnected with good answers to every checked cycle,
\* conn_func_retry(peek, addr) returns on the first attempt, after one
\* connect sequence and with no decrement of tries; dpidr is the word the
\* target sent in the DPIDR read and the value returned is the word it sent
\* in the last read of peek.
C9_GoldenPath ==
    (pc = "ret" /\ func = "peek" /\ ~hist.startConn /\ hist.allGood) =>
        /\ val # None
        /\ val = hist.wire
        /\ dpidr = hist.dpidrWire
        /\ hist.nConn = 1
        /\ ~hist.decremented
        /\ tries = NUM_TRIES
        /\ connected

C9_Witness ==
    /\ pc = "ret" /\ func = "peek" /\ ~hist.startConn /\ hist.allGood
    /\ dpidr = W(3009, 9335) /\ val = W(32768, 0) /\ hist.wire = val

\* C10: a call with no operation only connects: it invokes no operation and
\* returns no value, it ends connected exactly when the session was
\* established at entry or by the call, and it makes no transfer when the
\* session is established at entry.
C10_ConnectOnly ==
    (pc # "idle" /\ func = None) =>
        /\ ~hist.opInvoked
        /\ pc # "peek"
        /\ val = None
        /\ hist.startConn => ~hist.traffic
        /\ pc = "ret" => (connected <=> (hist.startConn \/ hist.estabCall))

C10_Witness ==
    /\ pc = "ret" /\ func = None /\ connected /\ hist.estabCall
    /\ ~hist.startConn /\ hist.decremented

C10_WitnessIdleEntry ==
    pc = "ret" /\ func = None /\ connected /\ hist.startConn /\ ~hist.traffic

\* The bits a transfer clocked, in order: "0" and "1" driven, "." sampled
Bits(g) == [i \in 1..Len(g.calls) |-> g.calls[i].bit]

\* The line reset: 56 driven ones, then 8 driven zeros
ResetBits == [i \in 1..64 |-> IF i <= 56 THEN "1" ELSE "0"]

\* C11: after disconnect, called between calls of the wrapper, the last
\* transfer is the line reset and nothing else (at least 50 driven ones, then
\* at least 2 driven zeros, no sampled bit), connected is false, dp is what it
\* was and the transmit buffer is empty; after a second disconnect the
\* connection state is what the first one left.
C11_DisconnectIdempotent ==
    /\ hist.disc >= 1 =>
          /\ Bits(gpio) = ResetBits
          /\ \A i \in 1..50 : gpio.calls[i].bit = "1"
          /\ \A i \in 57..58 : gpio.calls[i].bit = "0"
          /\ ~connected
          /\ dp = hist.discDp
          /\ txdata = <<>>
    /\ hist.disc = 2 => <<connected, dp, txdata>> = hist.discState

C11_Witness ==
    hist.disc = 2 /\ hist.discWas /\ dp = DP_CORE1 /\ ~connected

\* The last transfer ended with the line reset
EndsWithReset(g) ==
    /\ Len(g.calls) >= Len(ResetBits)
    /\ SubSeq(Bits(g), Len(g.calls) - Len(ResetBits) + 1, Len(g.calls)) = ResetBits

\* C12: however the program ends (interrupt, end of the run, window closed),
\* the connection is torn down and then the pins are released: connected is
\* false, the last transfer ended with the line reset (on the interrupt path
\* and at the end of the run always, at a closed window when it was
\* connected), and after it both pins are inputs.
C12_TeardownThenRelease ==
    pc = "exited" =>
        /\ ~connected
        /\ (hist.exit \in {"sigint", "end"} \/ hist.discWas) => EndsWithReset(gpio)
        /\ dat_dir = "in"
        /\ clk_dir = "in"

\* C13: the transfer of the interrupt handler's disconnect clocks the line
\* reset and nothing else, wherever the interrupt came.
C13_TeardownIsResetOnly ==
    (pc = "exited" /\ hist.exit = "sigint") => Bits(gpio) = ResetBits

\* The data word w as a write cycle drives it, least significant bit first
DrivenWord(w) == [n \in 1..32 |-> IF TestBit(w, n - 1) THEN "1" ELSE "0"]

\* C14: connect makes one transfer of 212 driven bits that begins with the
\* dormant-exit sequence (8 ones, the 128-bit selection alert, 4 idle zeros,
\* the activation code 0x1a) and ends with the line reset; then it writes dp
\* to DP 0xc, and connected is set whatever that write's ack was.  The DPIDR
\* read (DP 0) decides: when its check fails the connection is marked as
\* failed, when it passes power_up follows; nothing but a failed DPIDR read
\* or power_up makes a round end disconnected.
C14_ConnectUnchecked ==
    /\ pc = "select" =>
          /\ Len(gpio.calls) = 212
          /\ \A i \in 1..212 : gpio.calls[i].bit # "."
          /\ \A i \in 1..8 : gpio.calls[i].bit = "1"
          /\ \A i \in 137..140 : gpio.calls[i].bit = "0"
          /\ SubSeq(Bits(gpio), 141, 148) = <<"0", "1", "0", "1", "1", "0", "0", "0">>
          /\ EndsWithReset(gpio)
    /\ pc = "get_dpidr" =>
          /\ connected
          /\ msg.hdr.vals["APnDP"] = U(SWD_DP)
          /\ msg.hdr.vals["RnW"] = U(SWD_WR)
          /\ msg.hdr.vals["Addr"] = U(3)
          /\ dp \in {DP_CORE0, DP_CORE1}
          /\ SubSeq(Bits(gpio), 14, 45) = DrivenWord(dp)
    /\ (hist.op = "get_dpidr" /\ pc \in {"dispatch", "power_up"}) =>
          /\ hist.opSeq = << <<SWD_RD, SWD_DP, 0>> >>
          /\ pc = "dispatch" <=> hist.opFail
          /\ pc = "dispatch" => (~connected /\ dpidr = None)
          /\ pc = "power_up" => (connected /\ dpidr # None)
    /\ (pc = "dispatch" /\ ~connected) => hist.op \in {"get_dpidr", "power_up"}

C14_Witness ==
    /\ pc = "get_dpidr" /\ connected /\ ~msg.ok
    /\ msg.ack.vals["ack"] = U(SWD_ACK_ERROR)
    /\ sess_dp = DP_CORE1

\* C15: whenever connected is true, the identifier that the connect sequence
\* of the session wrote to DP 0xc is the selected one; in particular peek
\* runs in a session of the selected core.
C15_SessionOfSelectedCore ==
    /\ connected => sess_dp = dp
    /\ pc = "peek" => sess_dp = dp

\* A cycle of the driver harness was the last transfer
AfterTx == hist.txDone /\ hist.disc = 0

\* C16: after every read or write, ok is true exactly when the ack the
\* target sent is OK (1) and, in a read, the parity bit it sent is the parity
\* of the 32-bit word it sent (number of ones mod 2); a write's ok is decided
\* by the ack alone.
C16_CheckIsAckAndReadParity ==
    AfterTx =>
        LET r == hist.tx.resp
        IN  msg.ok <=>
               /\ r.ack = SWD_ACK_OK
               /\ hist.tx.rd # 0 => r.parity = PopCount(r.value, 32) % 2

C16_Witness ==
    /\ AfterTx /\ hist.tx.rd = SWD_RD /\ hist.tx.resp.ack = SWD_ACK_OK
    /\ hist.tx.resp.value = W(32768, 0) /\ hist.tx.resp.parity = 0
    /\ ~msg.ok

\* A bit as it is driven
BitChar(b) == IF b # 0 THEN "1" ELSE "0"

\* The header of a cycle on the line: Start, APnDP, RnW, A[2], A[3], the
\* parity of these four, Stop, Park
HeaderBits(ap, rd, addr) ==
    LET a2 == (addr \div 4) % 2
        a3 == (addr \div 8) % 2
    IN  <<"1", BitChar(ap), BitChar(rd), BitChar(a2), BitChar(a3),
          BitChar((ap + rd + a2 + a3) % 2), "0", "1">>

\* Number of frames called name in the frame list regs
Frames(regs, name) == Cardinality({i \in 1..Len(regs) : regs[i] = name})

\* C17: every cycle clocks 46 bits: the header driven, a turnaround bit and
\* three ack bits sampled; then in a read the data word and its parity
\* sampled and decoded from the bits before the second turnaround, in a write
\* the second turnaround sampled and the data word and its parity driven
\* after it.  The frame list of the cycle has one ack and one data word,
\* whatever cycles the message object did before.
C17_FrameOrder ==
    AfterTx =>
        LET t == hist.tx
            B == Bits(gpio)
        IN  /\ Len(B) = 46
            /\ SubSeq(B, 1, 8) = HeaderBits(t.ap, t.rd, t.addr)
            /\ \A i \in 9..12 : B[i] = "."
            /\ msg.ack.vals["ack"] = U(t.resp.ack)
            /\ Frames(msg.regs, "ack") = 1
            /\ Frames(msg.regs, "val32p") = 1
            /\ IF t.rd # 0
               THEN /\ \A i \in 13..46 : B[i] = "."
                    /\ msg.regs = <<"hdr", "turn1", "ack", "val32p", "turn2">>
                    /\ msg.val32p.vals["value"] = t.resp.value
                    /\ msg.val32p.vals["parity"] = U(t.resp.parity)
                    /\ msg.turn2.vals["turn"] = U(t.resp.turn)
               ELSE /\ B[13] = "."
                    /\ msg.regs = <<"hdr", "turn1", "ack", "turn2", "val32p">>
                    /\ SubSeq(B, 14, 45) = DrivenWord(t.val)
                    /\ B[46] = BitChar(PopCount(t.val, 32) % 2)

C17_Witness ==
    /\ AfterTx /\ hist.tx.rd = SWD_WR /\ hist.txPrev = SWD_RD
    /\ hist.tx.val = W(32768, 0) /\ gpio.calls[45].bit = "1"

\* Number of calls op among the calls s of one bit, and the place of the first
Count(s, op) == Cardinality({n \in 1..Len(s) : s[n] = op})
Pos(s, op) == CHOOSE n \in 1..Len(s) : s[n] = op /\ \A j \in 1..(n - 1) : s[j] # op

\* The direction of the data pin when the calls of bit i of transfer g begin
DirAt(g, i) == dir_after(SubSeq(g.calls, 1, i - 1), g.dir0)

\* The direction of the data pin when bit i of transfer g is sampled
CaptureDir(g, i) ==
    LET o == g.calls[i].ops
    IN  IF Has(o, "setup_in") /\ Pos(o, "setup_in") < Pos(o, "input")
        THEN "in"
        ELSE DirAt(g, i)

\* C18: for every sampled bit of a transfer the data pin is an input when
\* its level is read, the level is read before the clock pulse of the bit,
\* and the pulse is clock high then clock low, once each.
C18_SampleOrder ==
    \A i \in 1..Len(gpio.calls) :
        gpio.calls[i].bit = "." =>
            LET o == gpio.calls[i].ops
            IN  /\ Count(o, "input") = 1
                /\ Count(o, "clk1") = 1
                /\ Count(o, "clk0") = 1
                /\ Pos(o, "input") < Pos(o, "clk1")
                /\ Pos(o, "clk1") < Pos(o, "clk0")
                /\ CaptureDir(gpio, i) = "in"

\* C19: in every read and write cycle the three ack bits (bits 10..12) and,
\* in a read, the 32 value bits and the parity bit (bits 13..45) are sampled
\* while the data pin is an input; a bit sampled while the pin is still an
\* output can only be the first turnaround bit (bit 9), and ok does not
\* depend on the level sampled there.
C19_MeaningfulBitsSampledAsInput ==
    AfterTx =>
        /\ \A i \in 10..12 :
              gpio.calls[i].bit = "." /\ CaptureDir(gpio, i) = "in"
        /\ hist.tx.rd # 0 =>
              \A i \in 13..45 :
                 gpio.calls[i].bit = "." /\ CaptureDir(gpio, i) = "in"
        /\ \A i \in 1..Len(gpio.calls) :
              (gpio.calls[i].bit = "." /\ CaptureDir(gpio, i) # "in") => i = 9
        /\ msg.ok <=> check([msg EXCEPT !.turn1.vals["turn"] = U(0)]).ok

C19_Witness ==
    /\ AfterTx /\ hist.tx.rd = SWD_RD /\ msg.ok
    /\ gpio.calls[9].bit = "." /\ CaptureDir(gpio, 9) = "out"
    /\ msg.turn1.vals["turn"] = U(1)
    /\ hist.tx.resp.value = W(32768, 0)

\* C20: over any sequence of transfers the direction of the data pin is set
\* only when it changes: no GPIO.setup(DAT_PIN, ...) is called for a bit when
\* the pin already has that direction (for the first bit of a transfer: the
\* direction the transfer before left), and a bit is driven only with the
\* pin an output.
C20_LazyDirection ==
    \A i \in 1..Len(gpio.calls) :
        LET o == gpio.calls[i].ops
            d == DirAt(gpio, i)
        IN  /\ Has(o, "setup_in") => d = "out"
            /\ Has(o, "setup_out") => d = "in"
            /\ Count(o, "setup_in") + Count(o, "setup_out") <= 1
            /\ gpio.calls[i].bit # "." =>
                  dir_after(SubSeq(gpio.calls, 1, i), gpio.dir0) = "out"

\* The sampled entries of the bit plan of transfer g, in order
Samples(g) == {i \in 1..Len(g.calls) : g.calls[i].bit = "."}

\* C21: a transfer returns one bit per sampled entry of its bit plan and none
\* per driven entry, the i-th returned bit being the level of the line at the
\* i-th sampled entry; it leaves the transmit buffer empty, so that the next
\* transfer carries the bits of its own cycle only (46).  The line reset, all
\* driven, returns nothing.
C21_OneBitPerSample ==
    /\ AfterTx =>
          LET lv == Levels(hist.tx.rd, hist.tx.resp)
          IN  /\ Len(hist.txRx) = Cardinality(Samples(gpio))
              /\ \A i \in 1..Len(hist.txRx) : hist.txRx[i] = BitChar(lv[i])
              /\ txdata = <<>>
              /\ Len(gpio.calls) = 46
    /\ (pc = "idle" /\ hist.disc >= 1) =>
          /\ Samples(gpio) = {}
          /\ rxdata = <<>>
          /\ txdata = <<>>
          /\ Len(gpio.calls) = 64

C21_Witness ==
    /\ AfterTx /\ hist.tx.rd = SWD_RD /\ hist.txPrev = SWD_WR
    /\ hist.tx.resp.value = W(32768, 0) /\ hist.tx.resp.ack = SWD_ACK_WAIT
    /\ Len(hist.txRx) = 38 /\ hist.txRx[3] = "1" /\ hist.txRx[36] = "1"
    /\ hist.txRx[35] = "0"

\* Bits the sampled frames of the cycle of message m declare
RecvWidth(m) ==
    LET w(f) == IF ~m[f].recv THEN 0
                ELSE IF f = "ack" THEN 3 ELSE IF f = "val32p" THEN 33 ELSE 1
    IN  w(m.regs[1]) + w(m.regs[2]) + w(m.regs[3]) + w(m.regs[4]) + w(m.regs[5])

\* Some field of a sampled frame of m was decoded from too few bits
HasNone(m) ==
    \E j \in 1..Len(m.regs) :
        /\ m[m.regs[j]].recv
        /\ \E f \in DOMAIN m[m.regs[j]].vals : m[m.regs[j]].vals[f] = None

\* C22: in every read and write cycle the decoding consumes exactly the bits
\* the transfer sampled, 5 in a write and 38 in a read: no field is decoded
\* from fewer bits than its width, the receive buffer is empty afterwards,
\* and the driven frames (the header, and the data word of a write) hold
\* what set put in them.
C22_DecodeConsumesSampled ==
    AfterTx =>
        LET t == hist.tx
        IN  /\ Len(hist.txRx) = IF t.rd # 0 THEN 38 ELSE 5
            /\ Len(hist.txRx) = RecvWidth(msg)
            /\ ~HasNone(msg)
            /\ rxdata = <<>>
            /\ msg.hdr.vals["Start"] = U(1)
            /\ msg.hdr.vals["APnDP"] = U(t.ap)
            /\ msg.hdr.vals["RnW"] = U(t.rd)
            /\ msg.hdr.vals["Addr"] = U(t.addr \div 4)
            /\ msg.hdr.vals["Stop"] = U(0)
            /\ msg.hdr.vals["Park"] = U(1)
            /\ t.rd = 0 =>
                  /\ msg.val32p.vals["value"] = t.val
                  /\ msg.val32p.vals["parity"] = U(PopCount(t.val, 32) % 2)

C22_Witness ==
    /\ AfterTx /\ hist.tx.rd = SWD_WR /\ hist.txPrev = SWD_RD
    /\ hist.tx.val = W(32768, 0) /\ hist.tx.resp.ack = 7
    /\ hist.tx.resp.turn = 1 /\ Len(hist.txRx) = 5 /\ rxdata = <<>>

\* Bit n (from 0) of the small integer held by word w, as it is driven
BitOf(w, n) == BitChar((w[1] \div Pow2(n)) % 2)

\* The bits of the fields of an assignment a to a shape of narrow fields,
\* least significant bit first, in declaration order
RECURSIVE FieldBits(_, _, _)
FieldBits(fields, a, j) ==
    IF j > Len(fields) THEN <<>>
    ELSE (IF fields[j][2] = 32
          THEN DrivenWord(a[fields[j][1]])
          ELSE [n \in 1..fields[j][2] |-> BitOf(a[fields[j][1]], n - 1)])
         \o FieldBits(fields, a, j + 1)

\* C23: for every frame shape (header, ack, turnaround, data word) and every
\* assignment of values that fit the field widths, the encoding is the bits
\* of the fields in declaration order, each least significant bit first, and
\* decoding these bits as sampled bits gives back every field value and
\* leaves no bit.
C23_CodecRoundTrip ==
    hist.codec.shape # "none" =>
        LET c == hist.codec
            fields == Shapes[c.shape]
        IN  /\ c.bits = FieldBits(fields, c.vals, 1)
            /\ DOMAIN c.out = FieldNames(fields)
            /\ \A f \in FieldNames(fields) : c.out[f] = c.vals[f]
            /\ c.rest = <<>>

C23_Witness ==
    /\ hist.codec.shape = "hdr"
    /\ hist.codec.vals["Addr"] = U(1) /\ hist.codec.vals["Start"] = U(0)
    /\ hist.codec.vals["Park"] = U(1)
    /\ hist.codec.bits = <<"0", "0", "0", "1", "0", "0", "0", "1">>
    /\ hist.codec.out["Addr"] = U(1)

C23_WitnessWord ==
    /\ hist.codec.shape = "val32p"
    /\ hist.codec.vals["value"] = W(32768, 0)
    /\ hist.codec.out["value"] = W(32768, 0)
    /\ hist.codec.vals["parity"] = U(0)

\* C24: for every access port flag, direction and register address 0, 4, 8,
\* 0xc, the header set builds has Start 1, Stop 0, Park 1, the flags as
\* given, Addr = address >> 2 on two bits and Parity the exclusive or of
\* APnDP, RnW and the two Addr bits: the five bits have an even number of
\* ones.
C24_HeaderParity ==
    hist.setDone =>
        LET t == hist.tx
            h == msg.hdr.vals
            a0 == (t.addr \div 4) % 2
            a1 == (t.addr \div 8) % 2
        IN  /\ h["Start"] = U(1) /\ h["Stop"] = U(0) /\ h["Park"] = U(1)
            /\ h["APnDP"] = U(t.ap) /\ h["RnW"] = U(t.rd)
            /\ h["Addr"] = U(a0 + 2 * a1)
            /\ h["Parity"] = U((t.ap + t.rd + a0 + a1) % 2)
            /\ h["Parity"][1] \in {0, 1}
            /\ (t.ap + t.rd + a0 + a1 + h["Parity"][1]) % 2 = 0

C24_Witness ==
    /\ hist.setDone /\ hist.tx.ap = SWD_AP /\ hist.tx.rd = SWD_RD
    /\ hist.tx.addr = 8 /\ msg.hdr.vals["Addr"] = U(2)
    /\ msg.hdr.vals["Parity"] = U(1)

\* The last transfer was the write of 0xA2000012 to AP 0 (auto-incrementing
\* 32-bit transfers), the first of the two closing writes of power_up
ClosingWriteOnWire ==
    /\ pc = "power_up" /\ k = 9
    /\ Len(gpio.calls) = 46
    /\ SubSeq(Bits(gpio), 1, 8) = HeaderBits(SWD_AP, SWD_WR, 0)
    /\ SubSeq(Bits(gpio), 14, 45) = DrivenWord(W(41472, 18))

\* C25: in power_up the closing writes are put on the wire only when the
\* identification read through DP 0xc passed its check: when the first of
\* them has been transferred, idr holds a value.
C25_ClosingWritesOnSuccess == ClosingWriteOnWire => idr # None

=============================================================================
